---- MODULE Spec2Model ----
(***************************************************************************)
(* Model of riskai.py: the memoised battle simulator AI.simulate, and the  *)
(* decision interface of the agents AI, BetterAI and StupidAI.             *)
(***************************************************************************)
EXTENDS Integers, Sequences, FiniteSets, TLC

(* ------------------------------------------------------------------ *)
(* Bounds of the model                                                *)
(* ------------------------------------------------------------------ *)
NThreads == 2
MaxAtk == 2
MaxDef == 2
MaxTests == 1
MaxCalls == 2
TrialMaxAtk == 5
TrialMaxDef == 3
TrialMaxTests == 3
ConcMaxAtk == 2
ConcMaxDef == 1
ConcMaxTests == 1
ConcMaxCalls == 3
ExMaxAtk == 4
ExMaxDef == 2
NTerr == 4
MaxForces == 5
MaxLeafForces == 2
MaxAvail == 2

(* ------------------------------------------------------------------ *)
(* Program constants                                                  *)
(* ------------------------------------------------------------------ *)
DieFaces == 6
MaxAtkDice == 3
MaxDefDice == 2

Threads == 1..NThreads
NoValue == "NoValue"

VARIABLES
    cache,      \* AI._sim_cache: (n_atk, n_def) -> stats
    pc,         \* per caller: position inside simulate
    n_atk, n_def, tests,            \* per caller: arguments of the call
    i, a, d,                        \* per caller: trial index and forces
    a_survive, d_survive, victory,  \* per caller: accumulators
    ret,        \* per caller: what the last call returned or raised
    rolls,      \* per caller: random.randint calls made by the current call
    iters,      \* per caller: iterations of the while loop in the current trial
    calls,      \* number of simulate calls made so far
    xa, xd, atk_roll, def_roll,     \* one exchange: forces and sorted rolls
    cls,            \* the class of the agent: AI, BetterAI or StupidAI
    started,        \* start() has been called
    area_priority,  \* BetterAI.area_priority
    owner, forces,  \* the world: owner and forces of every territory
    result,         \* what the last decision operation returned or raised
    callerpc,       \* the game loop: idle, holding a generator, or an order
    gen,            \* the frame of the attack() generator
    order,          \* the order attack() has just yielded
    cb_a, cb_d, cb_n    \* the game loop's combat: forces left, exchanges made

simVars == <<cache, pc, n_atk, n_def, tests, i, a, d, a_survive, d_survive,
             victory, ret, rolls, iters, calls>>
exVars == <<xa, xd, atk_roll, def_roll>>
agentVars == <<cls, started, area_priority, owner, forces, result, callerpc,
               gen, order, cb_a, cb_d, cb_n>>
vars == <<simVars, exVars, agentVars>>

(* ------------------------------------------------------------------ *)
(* Pure helpers                                                       *)
(* ------------------------------------------------------------------ *)
Min(x, y) == IF x < y THEN x ELSE y

Abs(x) == IF x < 0 THEN -x ELSE x

RECURSIVE Gcd(_, _)
Gcd(x, y) == IF y = 0 THEN x ELSE Gcd(y, x % y)

\* float(n) / m as an exact reduced fraction <<numerator, denominator>>;
\* equal quotients give equal values, different quotients different values.
FloatDiv(n, m) ==
    LET g == Gcd(Abs(n), Abs(m))
        s == IF m < 0 THEN -1 ELSE 1
    IN  IF n = 0 THEN <<0, 1>> ELSE <<(s * n) \div g, (s * m) \div g>>

RECURSIVE Sum(_)
Sum(s) == IF s = <<>> THEN 0 ELSE Head(s) + Sum(Tail(s))

\* index of a largest element of a non-empty sequence
RECURSIVE MaxIndex(_, _, _)
MaxIndex(s, k, best) ==
    IF k > Len(s) THEN best
    ELSE MaxIndex(s, k + 1, IF s[k] > s[best] THEN k ELSE best)

RemoveAt(s, k) == SubSeq(s, 1, k - 1) \o SubSeq(s, k + 1, Len(s))

\* sorted(xs, reverse=True)
RECURSIVE SortedReverse(_)
SortedReverse(s) ==
    IF s = <<>> THEN <<>>
    ELSE LET k == MaxIndex(s, 1, 1)
         IN  <<s[k]>> \o SortedReverse(RemoveAt(s, k))

AtkDiceMin(x) == Min(x, MaxAtkDice)
\* atk_dice = min(a - 1, 3)
AtkDice(x) == Min(x - 1, MaxAtkDice)

DefDiceLess(x) == Min(x - 1, MaxDefDice)
\* def_dice = min(d, 2)
DefDice(x) == Min(x, MaxDefDice)

AttackerWinsTies(aa, dd) == aa >= dd
\* if aa > dd
AttackerWinsPair(aa, dd) == aa > dd

\* for aa, dd in zip(atk_roll, def_roll): if aa > dd: d -= 1 else: a -= 1
RECURSIVE ZipLoop(_, _, _, _, _)
ZipLoop(ar, dr, k, x, y) ==
    IF k > Min(Len(ar), Len(dr)) THEN <<x, y>>
    ELSE IF AttackerWinsPair(ar[k], dr[k])
         THEN ZipLoop(ar, dr, k + 1, x, y - 1)
         ELSE ZipLoop(ar, dr, k + 1, x - 1, y)

\* every roll of n dice: [random.randint(1, 6) for i in range(n)]
Rolls(n) == [1..n -> 1..DieFaces]

\* the changes <<da, dd>> of (a, d) that one exchange with n attacker dice and
\* m defender dice can make, over every outcome of the dice
ExchangeDeltas ==
    [n \in 0..MaxAtkDice, m \in 0..MaxDefDice |->
        {ZipLoop(SortedReverse(x), SortedReverse(y), 1, 0, 0) :
            x \in Rolls(n), y \in Rolls(m)}]

WhileAlways(x, y) == x > 0 /\ y > 0
\* while a > 1 and d > 0
WhileCond(x, y) == x > 1 /\ y > 0

InCacheNever(c, x, y) == FALSE
\* (n_atk, n_def) in cls._sim_cache
InCache(c, x, y) == <<x, y>> \in DOMAIN c

\* (float(victory)/tests, avg a_survive or 0, avg d_survive or 0)
Stats(v, t, as, ds) ==
    << FloatDiv(v, t),
       IF v # 0 THEN FloatDiv(Sum(as), v) ELSE <<0, 1>>,
       IF t - v # 0 THEN FloatDiv(Sum(ds), t - v) ELSE <<0, 1>> >>

Put(c, k, v) == [x \in DOMAIN c \cup {k} |-> IF x = k THEN v ELSE c[x]]

(* ------------------------------------------------------------------ *)
(* AI.simulate, one caller p                                          *)
(* ------------------------------------------------------------------ *)
\* entry and line 27: the cache lookup; on a miss lines 29-31
Simulate(p, na, nd, t) ==
    /\ pc[p] = "idle"
    /\ n_atk' = [n_atk EXCEPT ![p] = na]
    /\ n_def' = [n_def EXCEPT ![p] = nd]
    /\ tests' = [tests EXCEPT ![p] = t]
    /\ calls' = calls + 1
    /\ rolls' = [rolls EXCEPT ![p] = 0]
    /\ iters' = [iters EXCEPT ![p] = 0]
    /\ ret' = [ret EXCEPT ![p] = NoValue]
    /\ a_survive' = [a_survive EXCEPT ![p] = <<>>]
    /\ d_survive' = [d_survive EXCEPT ![p] = <<>>]
    /\ victory' = [victory EXCEPT ![p] = 0]
    /\ i' = [i EXCEPT ![p] = 0]
    /\ pc' = [pc EXCEPT ![p] = IF InCache(cache, na, nd) THEN "hit" ELSE "for"]
    /\ UNCHANGED <<cache, a, d, exVars, agentVars>>

\* line 28: return cls._sim_cache[(n_atk, n_def)]
ReturnCached(p) ==
    /\ pc[p] = "hit"
    /\ ret' = [ret EXCEPT ![p] = cache[<<n_atk[p], n_def[p]>>]]
    /\ pc' = [pc EXCEPT ![p] = "idle"]
    /\ UNCHANGED <<cache, n_atk, n_def, tests, i, a, d, a_survive, d_survive,
                   victory, rolls, iters, calls, exVars, agentVars>>

\* the locals of the call go away with its frame
DropLocals(p) ==
    /\ i' = [i EXCEPT ![p] = 0]
    /\ a' = [a EXCEPT ![p] = 0]
    /\ d' = [d EXCEPT ![p] = 0]
    /\ a_survive' = [a_survive EXCEPT ![p] = <<>>]
    /\ d_survive' = [d_survive EXCEPT ![p] = <<>>]
    /\ victory' = [victory EXCEPT ![p] = 0]
    /\ iters' = [iters EXCEPT ![p] = 0]

\* lines 32-34: the next trial, or the end of the for loop
ForTrial(p) ==
    /\ pc[p] = "for"
    /\ IF i[p] < tests[p]
       THEN /\ a' = [a EXCEPT ![p] = n_atk[p]]
            /\ d' = [d EXCEPT ![p] = n_def[p]]
            /\ i' = [i EXCEPT ![p] = i[p] + 1]
            /\ iters' = [iters EXCEPT ![p] = 0]
            /\ pc' = [pc EXCEPT ![p] = "while"]
       ELSE /\ pc' = [pc EXCEPT ![p] = "store"]
            /\ UNCHANGED <<a, d, i, iters>>
    /\ UNCHANGED <<cache, n_atk, n_def, tests, a_survive, d_survive, victory,
                   ret, rolls, calls, exVars, agentVars>>

\* lines 35-45: one iteration of the while loop
Exchange(p) ==
    /\ pc[p] = "while"
    /\ WhileCond(a[p], d[p])
    /\ LET n == AtkDice(a[p])
           m == DefDice(d[p])
       IN  /\ \E delta \in ExchangeDeltas[n, m] :
                /\ a' = [a EXCEPT ![p] = a[p] + delta[1]]
                /\ d' = [d EXCEPT ![p] = d[p] + delta[2]]
           /\ rolls' = [rolls EXCEPT ![p] = rolls[p] + n + m]
    /\ iters' = [iters EXCEPT ![p] = iters[p] + 1]
    /\ UNCHANGED <<cache, pc, n_atk, n_def, tests, i, a_survive, d_survive,
                   victory, ret, calls, exVars, agentVars>>

\* line 35 false, lines 46-50: the outcome of the trial
TrialOutcome(p) ==
    /\ pc[p] = "while"
    /\ ~WhileCond(a[p], d[p])
    /\ IF d[p] = 0
       THEN /\ a_survive' = [a_survive EXCEPT ![p] = Append(a_survive[p], a[p])]
            /\ victory' = [victory EXCEPT ![p] = victory[p] + 1]
            /\ UNCHANGED d_survive
       ELSE /\ d_survive' = [d_survive EXCEPT ![p] = Append(d_survive[p], d[p])]
            /\ UNCHANGED <<a_survive, victory>>
    /\ pc' = [pc EXCEPT ![p] = "for"]
    /\ UNCHANGED <<cache, n_atk, n_def, tests, i, a, d, ret, rolls, iters,
                   calls, exVars, agentVars>>

\* lines 52-54: compute the statistics and store them; float(victory) / tests
\* raises ZeroDivisionError when tests is 0
Store(p) ==
    /\ pc[p] = "store"
    /\ IF tests[p] = 0
       THEN /\ ret' = [ret EXCEPT ![p] = "ZeroDivisionError"]
            /\ pc' = [pc EXCEPT ![p] = "idle"]
            /\ DropLocals(p)
            /\ UNCHANGED cache
       ELSE /\ cache' = Put(cache, <<n_atk[p], n_def[p]>>,
                            Stats(victory[p], tests[p], a_survive[p], d_survive[p]))
            /\ pc' = [pc EXCEPT ![p] = "return"]
            /\ UNCHANGED <<ret, i, a, d, a_survive, d_survive, victory, iters>>
    /\ UNCHANGED <<n_atk, n_def, tests, rolls, calls, exVars, agentVars>>

\* line 55: return cls._sim_cache[(n_atk, n_def)]
Return(p) ==
    /\ pc[p] = "return"
    /\ ret' = [ret EXCEPT ![p] = cache[<<n_atk[p], n_def[p]>>]]
    /\ pc' = [pc EXCEPT ![p] = "idle"]
    /\ DropLocals(p)
    /\ UNCHANGED <<cache, n_atk, n_def, tests, rolls, calls, exVars, agentVars>>

SimInit ==
    /\ cache = <<>>
    /\ pc = [p \in Threads |-> "idle"]
    /\ n_atk = [p \in Threads |-> 0]
    /\ n_def = [p \in Threads |-> 0]
    /\ tests = [p \in Threads |-> 0]
    /\ i = [p \in Threads |-> 0]
    /\ a = [p \in Threads |-> 0]
    /\ d = [p \in Threads |-> 0]
    /\ a_survive = [p \in Threads |-> <<>>]
    /\ d_survive = [p \in Threads |-> <<>>]
    /\ victory = [p \in Threads |-> 0]
    /\ ret = [p \in Threads |-> NoValue]
    /\ rolls = [p \in Threads |-> 0]
    /\ iters = [p \in Threads |-> 0]
    /\ calls = 0

ExIdle == xa = 0 /\ xd = 0 /\ atk_roll = <<>> /\ def_roll = <<>>

NoOrder == [src |-> 0, dst |-> 0, atk |-> "none", total |-> 0, move |-> "none"]
NoGen == [t |-> 0, k |-> 0, adjacent |-> <<>>, total |-> 0]
NoResult == [op |-> "none", kind |-> "none", val |-> <<>>, arg |-> 0]

AgentIdle ==
    /\ cls = "AI"
    /\ started = FALSE
    /\ area_priority = <<>>
    /\ owner = <<>>
    /\ forces = <<>>
    /\ result = NoResult
    /\ callerpc = "idle"
    /\ gen = NoGen
    /\ order = NoOrder
    /\ cb_a = 0 /\ cb_d = 0 /\ cb_n = 0

(* ------------------------------------------------------------------ *)
(* Spec: one caller, calls one after the other                        *)
(* ------------------------------------------------------------------ *)
Init == SimInit /\ ExIdle /\ AgentIdle

\* the callers' arguments: any integers from 0 up to the bounds
Call ==
    /\ calls < MaxCalls
    /\ \E na \in 0..MaxAtk, nd \in 0..MaxDef, t \in 0..MaxTests :
           Simulate(1, na, nd, t)

Next ==
    \/ Call
    \/ ReturnCached(1)
    \/ ForTrial(1)
    \/ Exchange(1)
    \/ TrialOutcome(1)
    \/ Store(1)
    \/ Return(1)

Spec == Init /\ [][Next]_vars

(* ------------------------------------------------------------------ *)
(* SpecTrial: a single call on an empty cache, with larger forces, so   *)
(* that three attacker dice are rolled                                 *)
(* ------------------------------------------------------------------ *)
TrialCall ==
    /\ calls = 0
    /\ \E na \in 0..TrialMaxAtk, nd \in 0..TrialMaxDef, t \in 0..TrialMaxTests :
           Simulate(1, na, nd, t)

NextTrial ==
    \/ TrialCall
    \/ ForTrial(1)
    \/ Exchange(1)
    \/ TrialOutcome(1)
    \/ Store(1)
    \/ Return(1)

SpecTrial == Init /\ [][NextTrial]_vars

(* ------------------------------------------------------------------ *)
(* SpecConc: several callers inside simulate at once; a step is one    *)
(* access to the shared cache or a piece of local work                 *)
(* ------------------------------------------------------------------ *)
ConcCall(p) ==
    /\ calls < ConcMaxCalls
    /\ \E na \in 0..ConcMaxAtk, nd \in 0..ConcMaxDef, t \in 0..ConcMaxTests :
           Simulate(p, na, nd, t)

NextConc ==
    \E p \in Threads :
        \/ ConcCall(p)
        \/ ReturnCached(p)
        \/ ForTrial(p)
        \/ Exchange(p)
        \/ TrialOutcome(p)
        \/ Store(p)
        \/ Return(p)

SpecConc == Init /\ [][NextConc]_vars

(* ------------------------------------------------------------------ *)
(* SpecExchange: the body of the while loop on its own, with the dice  *)
(* kept in the state                                                   *)
(* ------------------------------------------------------------------ *)
InitExchange ==
    /\ SimInit
    /\ AgentIdle
    /\ xa \in 0..ExMaxAtk
    /\ xd \in 0..ExMaxDef
    /\ atk_roll = <<>>
    /\ def_roll = <<>>

\* lines 36-45 from a = xa, d = xd
ExchangeBody ==
    /\ WhileCond(xa, xd)
    /\ atk_roll = <<>>
    /\ def_roll = <<>>
    /\ \E x \in Rolls(AtkDice(xa)), y \in Rolls(DefDice(xd)) :
          LET ar == SortedReverse(x)
              dr == SortedReverse(y)
              out == ZipLoop(ar, dr, 1, xa, xd)
          IN  /\ atk_roll' = ar
              /\ def_roll' = dr
              /\ xa' = out[1]
              /\ xd' = out[2]
    /\ UNCHANGED <<simVars, agentVars>>

NextExchange == ExchangeBody

SpecExchange == InitExchange /\ [][NextExchange]_vars

(* ------------------------------------------------------------------ *)
(* The world the agents read: a centre territory joined to every other *)
(* one, territories 2 and 3 joined to each other, two areas            *)
(* ------------------------------------------------------------------ *)
Territories == 1..NTerr
Classes == {"AI", "BetterAI", "StupidAI"}
AreaNames == <<"north", "south">>

\* t.connect
Connect(t) ==
    IF t = 1 THEN [k \in 1..(NTerr - 1) |-> k + 1]
    ELSE IF t = 2 THEN <<1, 3>>
    ELSE IF t = 3 THEN <<1, 2>>
    ELSE <<1>>

\* t.area.name
AreaOf(t) == IF t <= 2 THEN "north" ELSE "south"

\* t.border: t is adjacent to a territory its owner does not own
Border(t) == \E k \in 1..Len(Connect(t)) : owner[Connect(t)[k]] # owner[t]

NotBorder(t) == ~Border(t)

\* self.player.territories, in the world's order
PlayerTerritories ==
    SelectSeq([t \in Territories |-> t], LAMBDA t : owner[t] = "me")

Range(s) == {s[k] : k \in 1..Len(s)}

AscendingSeq(S) == SelectSeq([t \in Territories |-> t], LAMBDA t : t \in S)

\* list.index
IndexOf(s, x) == CHOOSE k \in 1..Len(s) : s[k] = x /\ \A j \in 1..(k - 1) : s[j] # x

\* key=lambda x: self.area_priority.index(x.area.name)
AreaKey(t) == IndexOf(area_priority, AreaOf(t))

\* the first position of s whose key is smallest
FirstLeast(s, key) ==
    CHOOSE k \in 1..Len(s) :
        /\ \A j \in 1..Len(s) : key[s[k]] <= key[s[j]]
        /\ \A j \in 1..(k - 1) : key[s[j]] > key[s[k]]

\* sorted(s, key=...): ascending and stable
RECURSIVE SortedByKey(_, _)
SortedByKey(s, key) ==
    IF s = <<>> THEN <<>>
    ELSE LET k == FirstLeast(s, key)
         IN  <<s[k]>> \o SortedByKey(RemoveAt(s, k), key)

SortedByArea(s) == SortedByKey(s, [t \in Range(s) |-> AreaKey(t)])

SortedByForces(s) == SortedByKey(s, [t \in Range(s) |-> forces[t]])

\* BetterAI.priority
Priority ==
    LET sorted == SortedByArea(SelectSeq(PlayerTerritories, Border))
        same == SelectSeq(sorted, LAMBDA t : AreaOf(t) = AreaOf(sorted[1]))
    IN  IF same # <<>> THEN same ELSE PlayerTerritories

\* the operations each class defines itself
Overrides(c) ==
    IF c = "BetterAI"
    THEN {"start", "initial_placement", "reinforce", "attack", "freemove"}
    ELSE IF c = "StupidAI" THEN {"initial_placement", "attack", "reinforce"}
    ELSE {}

\* the class whose body runs when op is invoked on an agent of class c
Resolve(c, op) == IF op \in Overrides(c) THEN c ELSE "AI"

BaseResultSilent(op) == "None"
\* the bodies of AI.initial_placement, AI.reinforce, AI.attack, AI.freemove
BaseResult(op) == IF op = "freemove" THEN "None" ELSE "NotImplementedError"

Res(op, kind, val, arg) == [op |-> op, kind |-> kind, val |-> val, arg |-> arg]

\* the dictionary built by result[choice] += 1 over a sequence of choices
CountMap(seq) ==
    [t \in Range(seq) |-> Cardinality({k \in 1..Len(seq) : seq[k] = t})]

Permutations2(s) == {p \in [1..Len(s) -> Range(s)] : Range(p) = Range(s)}

(* ------------------------------------------------------------------ *)
(* The agent's operations, as the game loop invokes them               *)
(* ------------------------------------------------------------------ *)
worldVars == <<owner, forces>>
combatVars == <<cb_a, cb_d, cb_n>>

\* AI.start (pass) and BetterAI.start
Start ==
    /\ ~started
    /\ started' = TRUE
    /\ IF Resolve(cls, "start") = "BetterAI"
       THEN area_priority' \in Permutations2(AreaNames)
       ELSE UNCHANGED area_priority
    /\ UNCHANGED <<cls, worldVars, result, callerpc, gen, order, combatVars,
                   simVars, exVars>>

\* random.choice(seq): an element, or IndexError on an empty sequence
ChoiceResult(op, seq, arg) ==
    IF seq = <<>>
    THEN result' = Res(op, "IndexError", <<>>, arg)
    ELSE \E c \in Range(seq) : result' = Res(op, "value", c, arg)

\* initial_placement(empty, remaining); an empty or absent list is <<>>
InitialPlacement(empty, remaining) ==
    /\ started /\ callerpc = "idle"
    /\ LET impl == Resolve(cls, "initial_placement")
       IN  IF impl = "BetterAI"
           THEN IF empty # <<>>
                THEN result' = Res("initial_placement", "value",
                                   SortedByArea(empty)[1], 0)
                ELSE ChoiceResult("initial_placement", Priority, 0)
           ELSE IF impl = "StupidAI"
           THEN IF empty # <<>>
                THEN ChoiceResult("initial_placement", empty, 0)
                ELSE ChoiceResult("initial_placement", PlayerTerritories, 0)
           ELSE result' = Res("initial_placement",
                              BaseResult("initial_placement"), <<>>, 0)
    /\ UNCHANGED <<cls, started, area_priority, worldVars, callerpc, gen, order,
                   combatVars, simVars, exVars>>

\* available draws of random.choice(choices), counted into a dictionary
ReinforceLoop(choices, available) ==
    IF available > 0 /\ choices = <<>>
    THEN result' = Res("reinforce", "IndexError", <<>>, available)
    ELSE \E seq \in [1..available -> Range(choices)] :
            result' = Res("reinforce", "value", CountMap(seq), available)

\* reinforce(available)
Reinforce(available) ==
    /\ started /\ callerpc = "idle"
    /\ LET impl == Resolve(cls, "reinforce")
       IN  IF impl = "BetterAI"
           THEN ReinforceLoop(Priority, available)
           ELSE IF impl = "StupidAI"
           THEN ReinforceLoop(SelectSeq(PlayerTerritories, Border), available)
           ELSE result' = Res("reinforce", BaseResult("reinforce"), <<>>, available)
    /\ UNCHANGED <<cls, started, area_priority, worldVars, callerpc, gen, order,
                   combatVars, simVars, exVars>>

\* freemove()
Freemove ==
    /\ started /\ callerpc = "idle"
    /\ LET impl == Resolve(cls, "freemove")
           srcs == SortedByForces(SelectSeq(PlayerTerritories, NotBorder))
           src == srcs[Len(srcs)]
       IN  IF impl = "BetterAI"
           THEN IF srcs # <<>>
                THEN result' = Res("freemove", "value",
                                   <<src, Priority[1], forces[src] - 1>>, 0)
                ELSE result' = Res("freemove", "None", <<>>, 0)
           ELSE result' = Res("freemove", BaseResult("freemove"), <<>>, 0)
    /\ UNCHANGED <<cls, started, area_priority, worldVars, callerpc, gen, order,
                   combatVars, simVars, exVars>>

\* attack(): the base class raises, the subclasses hand back a generator
Attack ==
    /\ started /\ callerpc = "idle"
    /\ IF Resolve(cls, "attack") = "AI"
       THEN /\ result' = Res("attack", BaseResult("attack"), <<>>, 0)
            /\ UNCHANGED callerpc
       ELSE /\ result' = Res("attack", "generator", <<>>, 0)
            /\ callerpc' = "gen"
    /\ gen' = NoGen
    /\ order' = NoOrder
    /\ UNCHANGED <<cls, started, area_priority, worldVars, combatVars,
                   simVars, exVars>>

(* ------------------------------------------------------------------ *)
(* The generators of attack(), resumed from where they were suspended  *)
(* ------------------------------------------------------------------ *)
\* StupidAI.attack: the positions (t, k) of the two for loops whose order
\* would be yielded in the present world
StupidYields(t, k) ==
    /\ owner[t] = "me"
    /\ owner[Connect(t)[k]] # "me"
    /\ forces[t] > forces[Connect(t)[k]]

Later(t, k, t0, k0) == t > t0 \/ (t = t0 /\ k > k0)

StupidPositions ==
    {pos \in Territories \X (1..(NTerr - 1)) :
        /\ pos[2] <= Len(Connect(pos[1]))
        /\ Later(pos[1], pos[2], gen.t, gen.k)
        /\ StupidYields(pos[1], pos[2])}

FirstPosition(S) ==
    CHOOSE pos \in S : \A q \in S : q = pos \/ Later(q[1], q[2], pos[1], pos[2])

\* BetterAI.attack, line 192
Adjacent(t) ==
    SelectSeq(Connect(t),
              LAMBDA x : owner[x] # owner[t] /\ forces[t] >= forces[x] + 3)

SumForces(s) == Sum([k \in 1..Len(s) |-> forces[s[k]]])

\* the territories after gen.t at which BetterAI.attack yields
BetterSources ==
    {t \in Territories :
        t > gen.t /\ owner[t] = "me" /\ forces[t] > 1 /\ Adjacent(t) # <<>>}

LeastOf(S) == CHOOSE t \in S : \A u \in S : t <= u

StupidNext ==
    IF StupidPositions = {}
    THEN /\ callerpc' = "idle"
         /\ gen' = NoGen
         /\ order' = NoOrder
    ELSE LET pos == FirstPosition(StupidPositions)
         IN  /\ callerpc' = "order"
             /\ gen' = [gen EXCEPT !.t = pos[1], !.k = pos[2]]
             /\ order' = [src |-> pos[1], dst |-> Connect(pos[1])[pos[2]],
                          atk |-> "none", total |-> 0, move |-> "none"]

BetterNext ==
    IF gen.k < Len(gen.adjacent)
    THEN \* the for loop of lines 198-200 goes on
         /\ callerpc' = "order"
         /\ gen' = [gen EXCEPT !.k = gen.k + 1]
         /\ order' = [src |-> gen.t, dst |-> gen.adjacent[gen.k + 1],
                      atk |-> "margin", total |-> gen.total, move |-> "one"]
    ELSE IF BetterSources = {}
    THEN /\ callerpc' = "idle"
         /\ gen' = NoGen
         /\ order' = NoOrder
    ELSE LET t == LeastOf(BetterSources)
             adjacent == Adjacent(t)
         IN  /\ callerpc' = "order"
             /\ IF Len(adjacent) = 1
                THEN /\ gen' = [t |-> t, k |-> 0, adjacent |-> <<>>, total |-> 0]
                     /\ order' = [src |-> t, dst |-> adjacent[1], atk |-> "gt",
                                  total |-> 0, move |-> "none"]
                ELSE /\ gen' = [t |-> t, k |-> 1, adjacent |-> adjacent,
                                total |-> SumForces(adjacent)]
                     /\ order' = [src |-> t, dst |-> adjacent[1],
                                  atk |-> "margin",
                                  total |-> SumForces(adjacent), move |-> "one"]

\* the game loop pulls the next order: the generator runs to its next yield
\* or to its end
AttackNext ==
    /\ callerpc = "gen"
    /\ IF cls = "BetterAI" THEN BetterNext ELSE StupidNext
    /\ UNCHANGED <<cls, started, area_priority, worldVars, result, combatVars,
                   simVars, exVars>>

(* ------------------------------------------------------------------ *)
(* The game loop executes the order it was handed                      *)
(* ------------------------------------------------------------------ *)
\* atk_strategy(n_atk, n_def); None attacks until exhausted
Continue(o, x, y) ==
    IF o.atk = "gt" THEN x > y
    ELSE IF o.atk = "margin" THEN x > y + o.total - forces[o.dst] + 3
    ELSE TRUE

\* move_strategy(n_atk); None moves the maximum
Move(o, x) == IF o.move = "one" THEN 1 ELSE x - 1

CombatBegin ==
    /\ callerpc = "order"
    /\ callerpc' = "combat"
    /\ cb_a' = forces[order.src]
    /\ cb_d' = forces[order.dst]
    /\ cb_n' = 0
    /\ UNCHANGED <<cls, started, area_priority, worldVars, result, gen, order,
                   simVars, exVars>>

\* whether one more exchange is fought: the strategy is asked after each
\* resolved exchange
Fights == cb_a > 1 /\ cb_d > 0 /\ (cb_n = 0 \/ Continue(order, cb_a, cb_d))

CombatExchange ==
    /\ callerpc = "combat"
    /\ Fights
    /\ \E delta \in ExchangeDeltas[AtkDice(cb_a), DefDice(cb_d)] :
          /\ cb_a' = cb_a + delta[1]
          /\ cb_d' = cb_d + delta[2]
    /\ cb_n' = cb_n + 1
    /\ UNCHANGED <<cls, started, area_priority, worldVars, result, callerpc,
                   gen, order, simVars, exVars>>

CombatEnd ==
    /\ callerpc = "combat"
    /\ ~Fights
    /\ IF cb_d = 0
       THEN /\ owner' = [owner EXCEPT ![order.dst] = "me"]
            /\ forces' = [forces EXCEPT ![order.src] = cb_a - Move(order, cb_a),
                                        ![order.dst] = Move(order, cb_a)]
       ELSE /\ forces' = [forces EXCEPT ![order.src] = cb_a,
                                        ![order.dst] = cb_d]
            /\ UNCHANGED owner
    /\ callerpc' = "gen"
    /\ cb_a' = 0 /\ cb_d' = 0 /\ cb_n' = 0
    /\ UNCHANGED <<cls, started, area_priority, result, gen, order,
                   simVars, exVars>>

(* ------------------------------------------------------------------ *)
(* SpecAgent: one agent of any class in any world of the bounds        *)
(* ------------------------------------------------------------------ *)
InitAgent ==
    /\ SimInit
    /\ ExIdle
    /\ cls \in Classes
    /\ started = FALSE
    /\ area_priority = <<>>
    /\ owner \in [Territories -> {"me", "other"}]
    /\ forces \in {f \in [Territories -> 1..MaxForces] :
                      \A t \in Territories : t > 1 => f[t] <= MaxLeafForces}
    /\ result = NoResult
    /\ callerpc = "idle"
    /\ gen = NoGen
    /\ order = NoOrder
    /\ cb_a = 0 /\ cb_d = 0 /\ cb_n = 0

NextAgent ==
    \/ Start
    \/ \E S \in SUBSET Territories : InitialPlacement(AscendingSeq(S), 1)
    \/ \E available \in 0..MaxAvail : Reinforce(available)
    \/ Freemove
    \/ Attack
    \/ AttackNext
    \/ CombatBegin
    \/ CombatExchange
    \/ CombatEnd

SpecAgent == InitAgent /\ [][NextAgent]_vars

(* ------------------------------------------------------------------ *)
(* SpecContract: the decision operations on a freshly claimed board,   *)
(* one force on every territory                                        *)
(* ------------------------------------------------------------------ *)
InitContract ==
    /\ SimInit
    /\ ExIdle
    /\ cls \in Classes
    /\ started = FALSE
    /\ area_priority = <<>>
    /\ owner \in [Territories -> {"me", "other"}]
    /\ forces = [t \in Territories |-> 1]
    /\ result = NoResult
    /\ callerpc = "idle"
    /\ gen = NoGen
    /\ order = NoOrder
    /\ cb_a = 0 /\ cb_d = 0 /\ cb_n = 0

NextContract ==
    \/ Start
    \/ \E S \in SUBSET Territories : InitialPlacement(AscendingSeq(S), 1)
    \/ \E available \in 0..MaxAvail : Reinforce(available)
    \/ Freemove
    \/ Attack
    \/ AttackNext

SpecContract == InitContract /\ [][NextContract]_vars

(* ------------------------------------------------------------------ *)
(* Claims                                                             *)
(* ------------------------------------------------------------------ *)
Key(p) == <<n_atk[p], n_def[p]>>

Computing(p) == pc[p] \in {"for", "while", "store"}

\* C1: once a key is stored, a later call with that ordered key (whatever its
\* trials) goes to the cached branch, returns the stored value, rolls no dice
\* and leaves the cache as it was; a stored entry never changes; a call whose
\* ordered key is absent is a miss even when the reversed key is stored.
C1_CachedKeyReturned ==
    [][ /\ \A k \in DOMAIN cache : k \in DOMAIN cache' /\ cache'[k] = cache[k]
        /\ \A p \in Threads :
            /\ (pc[p] = "idle" /\ pc'[p] # "idle") =>
                   /\ pc'[p] = "hit" <=> <<n_atk'[p], n_def'[p]>> \in DOMAIN cache
                   /\ pc'[p] = "hit" => (cache' = cache /\ rolls'[p] = 0)
            /\ pc[p] = "hit" =>
                   /\ pc'[p] = "idle"
                   /\ ret'[p] = cache[Key(p)]
                   /\ rolls'[p] = 0
                   /\ cache' = cache ]_vars

\* C1 witness: (2, 1) was computed, a second call with trials = 0 returned the
\* stored statistics without a roll, and (1, 2) is still absent.
C1_Witness ==
    /\ calls = 2
    /\ pc[1] = "idle"
    /\ Key(1) = <<2, 1>>
    /\ tests[1] = 0
    /\ <<2, 1>> \in DOMAIN cache
    /\ <<1, 2>> \notin DOMAIN cache
    /\ ret[1] = cache[<<2, 1>>]
    /\ rolls[1] = 0

\* C2: with concurrent callers the check-then-insert is atomic per key: no two
\* callers compute the same key at once, and a stored value is never replaced.
C2_AtomicPerKey ==
    [][ /\ \A p, q \in Threads :
              (p # q /\ Computing(p)' /\ Computing(q)') => Key(p)' # Key(q)'
        /\ \A k \in DOMAIN cache : k \in DOMAIN cache' /\ cache'[k] = cache[k]
      ]_vars

\* C3: a call with n_atk < 1, n_def < 1 or tests < 1 ends in an input
\* validation error, and no such key is ever in the cache.
C3_InvalidRejected ==
    /\ \A k \in DOMAIN cache : k[1] >= 1 /\ k[2] >= 1
    /\ \A p \in Threads :
          (pc[p] = "idle" /\ calls > 0 /\ ret[p] # NoValue
           /\ (n_atk[p] < 1 \/ n_def[p] < 1 \/ tests[p] < 1))
             => ret[p] = "ValidationError"

\* C4: a call simulate(1, d, trials) with d >= 1, trials >= 1 never enters
\* the loop body, records only defender wins with d survivors, and returns
\* (0, 0, d).
C4_OneAttacker ==
    \A p \in Threads :
        (n_atk[p] = 1 /\ n_def[p] >= 1 /\ tests[p] >= 1) =>
            /\ Computing(p) \/ pc[p] = "return" =>
                  /\ rolls[p] = 0
                  /\ iters[p] = 0
                  /\ victory[p] = 0
                  /\ a_survive[p] = <<>>
                  /\ \A k \in 1..Len(d_survive[p]) : d_survive[p][k] = n_def[p]
                  /\ pc[p] \in {"store", "return"} => Len(d_survive[p]) = tests[p]
            /\ (pc[p] = "idle" /\ ret[p] # NoValue) =>
                  ret[p] = << <<0, 1>>, <<0, 1>>, <<n_def[p], 1>> >>

\* C4 witness: simulate(1, 2, 2) has returned (0, 0, 2).
C4_Witness ==
    /\ pc[1] = "idle"
    /\ n_atk[1] = 1 /\ n_def[1] = 2 /\ tests[1] = 2
    /\ ret[1] = << <<0, 1>>, <<0, 1>>, <<2, 1>> >>

\* C8: an exchange from a > 1, d > 0 rolls min(a-1, 3) and min(d, 2) dice,
\* both sorted descending; d drops by the number of positional pairs where
\* the attacker's die is strictly greater, a by the number of the other
\* pairs; the total loss is the number of pairs; [6,5,4] against [6,3] costs
\* each side one unit.
C8_ExchangeLosses ==
    [][ (atk_roll = <<>> /\ atk_roll' # <<>>) =>
          LET n == Len(atk_roll')
              m == Len(def_roll')
              pairs == 1..(IF n < m THEN n ELSE m)
              won == Cardinality({k \in pairs : atk_roll'[k] > def_roll'[k]})
          IN  /\ xa > 1 /\ xd > 0
              /\ n = (IF xa - 1 < 3 THEN xa - 1 ELSE 3)
              /\ m = (IF xd < 2 THEN xd ELSE 2)
              /\ \A k \in 1..(n - 1) : atk_roll'[k] >= atk_roll'[k + 1]
              /\ \A k \in 1..(m - 1) : def_roll'[k] >= def_roll'[k + 1]
              /\ xd' = xd - won
              /\ xa' = xa - (Cardinality(pairs) - won)
              /\ (xa - xa') + (xd - xd') = (IF n < m THEN n ELSE m)
              /\ (atk_roll' = <<6, 5, 4>> /\ def_roll' = <<6, 3>>) =>
                    (xa' = xa - 1 /\ xd' = xd - 1) ]_vars

\* C8 witness: [6,5,4] against [6,3] was rolled from a = 4, d = 2.
C8_Witness ==
    /\ atk_roll = <<6, 5, 4>>
    /\ def_roll = <<6, 3>>
    /\ xa = 3
    /\ xd = 1

\* C9: every iteration of the while loop lowers a + d by at least one, and a
\* trial started from n_atk >= 1, n_def >= 1 makes at most n_atk + n_def - 1
\* iterations.
C9_LoopDecreases ==
    [][ \A p \in Threads :
          (pc[p] = "while" /\ iters'[p] = iters[p] + 1) =>
              /\ a'[p] + d'[p] <= a[p] + d[p] - 1
              /\ (n_atk[p] >= 1 /\ n_def[p] >= 1) =>
                     iters'[p] <= n_atk[p] + n_def[p] - 1 ]_vars

\* C9 witness: a trial from (4, 2) has left the loop after three iterations.
C9_Witness ==
    /\ pc[1] = "while"
    /\ Key(1) = <<4, 2>>
    /\ iters[1] = 3
    /\ ~(a[1] > 1 /\ d[1] > 0)

\* C10: in a trial started from n_atk >= 1, n_def >= 1: a >= 1 and d >= 0
\* throughout; at loop exit with n_atk >= 2 exactly one of d = 0, a = 1
\* holds; recorded attacker survivors are >= 2, recorded defender survivors
\* are >= 1 and are recorded with a = 1.
C10_TrialInvariant ==
    \A p \in Threads :
        (n_atk[p] >= 1 /\ n_def[p] >= 1) =>
            /\ pc[p] = "while" =>
                  /\ a[p] >= 1 /\ d[p] >= 0
                  /\ (~(a[p] > 1 /\ d[p] > 0) /\ n_atk[p] >= 2) =>
                        ((d[p] = 0) # (a[p] = 1))
                  /\ (~(a[p] > 1 /\ d[p] > 0) /\ d[p] # 0) => a[p] = 1
            /\ \A k \in 1..Len(a_survive[p]) : a_survive[p][k] >= 2
            /\ \A k \in 1..Len(d_survive[p]) : d_survive[p][k] >= 1

\* C10 witness: a call from (3, 2) has recorded one win and one loss.
C10_Witness ==
    /\ Key(1) = <<3, 2>>
    /\ Len(a_survive[1]) = 1
    /\ Len(d_survive[1]) = 1

DecisionOps == {"initial_placement", "reinforce", "attack", "freemove"}

Owned == {t \in Territories : owner[t] = "me"}

\* C5 as stated: each of the four decision operations, invoked on the base
\* class or on a class that does not override it, raises NotImplementedError.
C5_NoDefault ==
    (result.op \in DecisionOps /\ Resolve(cls, result.op) = "AI")
        => result.kind = "NotImplementedError"

\* C5 amended: initial_placement, reinforce and attack, invoked on the base
\* class or on a class that does not override them, raise
\* NotImplementedError; freemove has a default, which returns None.
C5_DefaultOnlyForFreemove ==
    (result.op \in DecisionOps /\ result.op \notin Overrides(cls)) =>
        IF result.op = "freemove"
        THEN result.kind = "None"
        ELSE result.kind = "NotImplementedError"

\* C5 witness: StupidAI, which does not define freemove, has returned None
\* from it.
C5_Witness ==
    /\ cls = "StupidAI"
    /\ result.op = "freemove"
    /\ result.kind = "None"

\* C6: reinforce(available) of BetterAI and of StupidAI, with available >= 0
\* and at least one territory owned, returns a mapping of owned territories
\* to non-negative integers that sum to available.
C6_ReinforceContract ==
    (result.op = "reinforce" /\ cls \in {"BetterAI", "StupidAI"} /\ Owned # {})
        => /\ result.kind = "value"
           /\ DOMAIN result.val \subseteq Owned
           /\ \A t \in DOMAIN result.val : result.val[t] >= 0
           /\ Sum([k \in 1..Len(AscendingSeq(DOMAIN result.val)) |->
                      result.val[AscendingSeq(DOMAIN result.val)[k]]]) = result.arg

\* C7: when attack() of BetterAI or StupidAI yields an order, the game loop
\* having executed every earlier one, the source is owned by the agent and
\* has more than one force, and the destination is adjacent to the source
\* and not owned by the agent.
C7_OrderValidWhenYielded ==
    callerpc = "order" =>
        /\ owner[order.src] = "me"
        /\ forces[order.src] > 1
        /\ order.dst \in Range(Connect(order.src))
        /\ owner[order.dst] # "me"

====
